---- MODULE Spec2Model ----
(***************************************************************************)
(* Steady-state aggregation of Locust result histories, as implemented by  *)
(* performance-tests/analyze_results.py: warmup exclusion per repetition,  *)
(* reduction per scenario, and the main() pipeline that consumes the       *)
(* resulting mapping.                                                      *)
(*                                                                         *)
(* A float is written in one of two ways.  <<n, d>>, in lowest terms with  *)
(* d > 0, is a real number: arithmetic on such values is exact.  <<B, 1,   *)
(* "binary64">> is an IEEE 754 double whose value is the sum of 2^b over   *)
(* the bit positions b in B: arithmetic on such values rounds every result *)
(* to 53 significant bits, to nearest, ties to even, as numpy does.  The   *)
(* float cells of one file are all written the same way.  <<0, 0>> is NaN  *)
(* (a missing CSV cell) and <<0, -1>> is a cell that read_csv left as a    *)
(* str (non-numeric text).                                                 *)
(***************************************************************************)
EXTENDS Integers, Sequences, FiniteSets, TLC

VARIABLES pc,                \* position in main() / the loader
          si,                \* position in scenario_mapping.items()
          nfiles,            \* len(files) of the current scenario
          fi,                \* number of files of the scenario already processed
          file,              \* content of the file processed last
          files,             \* the part of glob's list consumed so far (contents)
          df_valid,          \* pandas index of the rows bound to the local
                             \* df_valid (<<>> while it is unbound)
          all_stats,         \* rep_stats collected for the current scenario
          valid_repetitions, \* counter of the current scenario
          scenario_stats,    \* the mapping under construction / returned
          log,               \* lines printed so far
          outputs,           \* artefacts written under analysis/
          error,             \* uncaught exception that ended the process, or "none"
          exit_status        \* process exit status once pc = "exit", else -1

vars == <<pc, si, nfiles, fi, file, files, df_valid, all_stats, valid_repetitions,
          scenario_stats, log, outputs, error, exit_status>>

-----------------------------------------------------------------------------
(* Bounds of the model *)

MaxFiles == 2

MaxRows == 3

\* files of a scenario when the reduction is run on binary64 values
MaxReps == 3

-----------------------------------------------------------------------------
(* Arithmetic standing for numpy / pandas float arithmetic *)

NaN == <<0, 0>>

IsNaN(x) == x[2] = 0

\* a str cell: the column held text, so pandas kept it as object dtype
Text == <<0, -1>>

IsText(x) == x[2] < 0

Abs(n) == IF n < 0 THEN -n ELSE n

RECURSIVE GCD(_, _)
GCD(a, b) == IF b = 0 THEN a ELSE GCD(b, a % b)

Rat(n, d) ==
    IF d = 0 THEN NaN
    ELSE LET s == IF d < 0 THEN -1 ELSE 1
             g == GCD(Abs(n), Abs(d))
         IN  <<(s * n) \div g, (s * d) \div g>>

R(n) == Rat(n, 1)

RatAdd(x, y) ==
    IF IsNaN(x) \/ IsNaN(y) THEN NaN
    ELSE Rat(x[1] * y[2] + y[1] * x[2], x[2] * y[2])

RatDivInt(x, k) == IF IsNaN(x) THEN NaN ELSE Rat(x[1], x[2] * k)

RatLeq(x, y) == x[1] * y[2] <= y[1] * x[2]

\* the sum of a list of reals
RECURSIVE RatSum(_)
RatSum(s) == IF s = <<>> THEN R(0) ELSE RatAdd(Head(s), RatSum(Tail(s)))

RECURSIVE IntSum(_)
IntSum(s) == IF s = <<>> THEN 0 ELSE Head(s) + IntSum(Tail(s))

\* a non-negative IEEE 754 double, given by the positions of its one bits
B64(bits) == <<bits, 1, "binary64">>

IsB64(x) == Len(x) = 3

Top(B) == CHOOSE b \in B : \A c \in B : c <= b

Low(B) == CHOOSE b \in B : \A c \in B : b <= c

\* the one bits of the natural number n, the lowest at position pos
RECURSIVE IntBits(_, _)
IntBits(n, pos) ==
    IF n = 0 THEN {}
    ELSE (IF n % 2 = 1 THEN {pos} ELSE {}) \cup IntBits(n \div 2, pos + 1)

RECURSIVE BitLength(_)
BitLength(n) == IF n = 0 THEN 0 ELSE 1 + BitLength(n \div 2)

\* binary addition of A and B carries into position i
CarryInto(A, B, i) ==
    \E j \in A \cap B : j < i /\ \A k \in (j + 1)..(i - 1) : k \in A \cup B

\* the exact sum of two bit sets
BitsAdd(A, B) ==
    IF A = {} THEN B
    ELSE IF B = {} THEN A
    ELSE {i \in Low(A \cup B)..(Top(A \cup B) + 1) :
             ((i \in A) # (i \in B)) # CarryInto(A, B, i)}

\* rounding to 53 significant bits, to nearest, ties to even
Round53(B) ==
    IF B = {} THEN B
    ELSE LET cut  == Top(B) - 52
             kept == {b \in B : b >= cut}
             half == (cut - 1) \in B
             rest == \E b \in B : b < cut - 1
         IN  IF half /\ (rest \/ cut \in B) THEN BitsAdd(kept, {cut}) ELSE kept

\* long division of B by n from position pos down to low; a remainder left
\* at the end is recorded as one bit below low
RECURSIVE DivStep(_, _, _, _, _, _)
DivStep(B, n, pos, low, rem, Q) ==
    IF pos < low THEN IF rem = 0 THEN Q ELSE Q \cup {low - 1}
    ELSE LET r == 2 * rem + (IF pos \in B THEN 1 ELSE 0)
         IN  IF r >= n THEN DivStep(B, n, pos - 1, low, r - n, Q \cup {pos})
             ELSE DivStep(B, n, pos - 1, low, r, Q)

\* the double nearest to B / n, for a B of at most 53 significant bits
BitsDiv(B, n) ==
    IF B = {} THEN B
    ELSE Round53(DivStep(B, n, Top(B), Top(B) - 54 - BitLength(n), 0, {}))

\* the bit set B scaled by 2^k
Shifted(B, k) == {b + k : b \in B}

BitsLeq(A, B) == A = B \/ Top((A \ B) \cup (B \ A)) \in B

\* the double that read_csv parses from the decimal text of n / d
Dbl(n, d) == B64(BitsDiv(IntBits(n, 0), d))

\* np.add.reduce over a list of fewer than 8 doubles: one pass from left to
\* right, each partial sum rounded
RECURSIVE DblSum(_)
DblSum(s) ==
    IF Len(s) = 1 THEN s[1][1]
    ELSE Round53(BitsAdd(DblSum(SubSeq(s, 1, Len(s) - 1)), s[Len(s)][1]))

Leq(x, y) == IF IsB64(x) THEN BitsLeq(x[1], y[1]) ELSE RatLeq(x, y)

\* NpMean dividing by one more than the number of values
NpMean_plus(s) == RatDivInt(RatSum(s), Len(s) + 1)

\* np.mean of a list of floats: the sum of the list divided by its length
NpMean(s) ==
    IF IsB64(s[1]) THEN B64(BitsDiv(DblSum(s), Len(s)))
    ELSE RatDivInt(RatSum(s), Len(s))

\* NpMax taking the maximum of the repetition collected last
NpMax_last(s) == s[Len(s)]

\* np.max / np.min of a non-empty list: NaN propagates
NpMax(s) ==
    IF \E i \in 1..Len(s) : IsNaN(s[i]) THEN NaN
    ELSE s[CHOOSE i \in 1..Len(s) : \A j \in 1..Len(s) : Leq(s[j], s[i])]

NpMin(s) ==
    IF \E i \in 1..Len(s) : IsNaN(s[i]) THEN NaN
    ELSE s[CHOOSE i \in 1..Len(s) : \A j \in 1..Len(s) : Leq(s[i], s[j])]

\* the sequence s with its NaN entries removed
RECURSIVE DropNaN(_)
DropNaN(s) ==
    IF s = <<>> THEN <<>>
    ELSE IF IsNaN(Head(s)) THEN DropNaN(Tail(s))
    ELSE <<Head(s)>> \o DropNaN(Tail(s))

\* pandas Series.mean(): NaN entries are skipped
SeriesMean(s) == LET t == DropNaN(s) IN IF t = <<>> THEN NaN ELSE NpMean(t)

\* pd.notna
notna(x) == ~IsNaN(x)

\* the ascending sequence of the members of a set of row labels
RECURSIVE IdxSeq(_)
IdxSeq(S) ==
    IF S = {} THEN <<>>
    ELSE LET m == CHOOSE x \in S : \A y \in S : x <= y
         IN  <<m>> \o IdxSeq(S \ {m})

Range(s) == {s[i] : i \in 1..Len(s)}

-----------------------------------------------------------------------------
(* Configuration *)

ScenarioOrder == <<"CenarioA", "CenarioB", "CenarioC">>

ScenarioIds == Range(ScenarioOrder)

scenario_mapping ==
    [CenarioA |-> [name |-> "Cenario A (50 usuarios)", users |-> 50,
                   warmup_seconds |-> 60, total_duration |-> 600],
     CenarioB |-> [name |-> "Cenario B (100 usuarios)", users |-> 100,
                   warmup_seconds |-> 60, total_duration |-> 600],
     CenarioC |-> [name |-> "Cenario C (200 usuarios)", users |-> 200,
                   warmup_seconds |-> 30, total_duration |-> 300]]

-----------------------------------------------------------------------------
(* Input: rows of results_stats_history.csv *)

Timestamps == {0, 30, 60, 90}

\* metric cells of an Aggregated row
Metrics ==
    { [TotalRequestCount |-> 0, TotalFailureCount |-> 0,
       TotalAverageResponseTime |-> R(0), TotalMedianResponseTime |-> R(0),
       TotalMaxResponseTime |-> R(0), TotalMinResponseTime |-> R(0),
       P95 |-> NaN, P99 |-> NaN, RequestsPerSec |-> R(0)],
      [TotalRequestCount |-> 4, TotalFailureCount |-> 4,
       TotalAverageResponseTime |-> R(100), TotalMedianResponseTime |-> R(90),
       TotalMaxResponseTime |-> R(300), TotalMinResponseTime |-> R(20),
       P95 |-> NaN, P99 |-> R(280), RequestsPerSec |-> R(2)],
      [TotalRequestCount |-> 4, TotalFailureCount |-> 1,
       TotalAverageResponseTime |-> R(140), TotalMedianResponseTime |-> R(120),
       TotalMaxResponseTime |-> R(250), TotalMinResponseTime |-> R(10),
       P95 |-> R(200), P99 |-> NaN, RequestsPerSec |-> R(5)],
      [TotalRequestCount |-> 2, TotalFailureCount |-> 0,
       TotalAverageResponseTime |-> R(120), TotalMedianResponseTime |-> R(100),
       TotalMaxResponseTime |-> R(200), TotalMinResponseTime |-> R(30),
       P95 |-> R(180), P99 |-> R(190), RequestsPerSec |-> Rat(7, 2)] }

\* metric cells of a per-endpoint row
EndpointMetrics ==
    [TotalRequestCount |-> 1, TotalFailureCount |-> 0,
     TotalAverageResponseTime |-> R(50), TotalMedianResponseTime |-> R(50),
     TotalMaxResponseTime |-> R(50), TotalMinResponseTime |-> R(50),
     P95 |-> R(50), P99 |-> R(50), RequestsPerSec |-> R(9)]

Row(name, ts, m) == [Name |-> name, Timestamp |-> ts] @@ m

AggregatedRows == {Row("Aggregated", ts, m) : ts \in Timestamps, m \in Metrics}

EndpointRows == {Row("/api/customer/owners", ts, EndpointMetrics) : ts \in {0, 90}}

RowSet == AggregatedRows \cup EndpointRows

Unreadable == [readable |-> FALSE, rows |-> <<>>]

Csv(rows) == [readable |-> TRUE, rows |-> rows]

NoFile == Csv(<<>>)

\* every file of at most MaxRows rows, and an unreadable one
RepFiles ==
    {Unreadable} \cup {Csv(r) : r \in UNION {[1..n -> RowSet] : n \in 0..MaxRows}}

-----------------------------------------------------------------------------
(* loadRepetition: the body of the per-file loop *)

\* df[df['Name'] == 'Aggregated']
Aggregated(rows) == IdxSeq({i \in 1..Len(rows) : rows[i].Name = "Aggregated"})

\* df_aggregated['Timestamp'].min()
StartTimestamp(rows, agg) ==
    LET T == {rows[i].Timestamp : i \in Range(agg)}
    IN  CHOOSE t \in T : \A u \in T : t <= u

\* Retained with a strict comparison: the snapshot on the cutoff is dropped
Retained_strict(rows, agg, warmup_end_timestamp) ==
    IdxSeq({i \in Range(agg) : rows[i].Timestamp > warmup_end_timestamp})

\* df_aggregated[df_aggregated['Timestamp'] >= warmup_end_timestamp]
Retained(rows, agg, warmup_end_timestamp) ==
    IdxSeq({i \in Range(agg) : rows[i].Timestamp >= warmup_end_timestamp})

\* df_valid.iloc[-1]
FinalData(rows, valid) == rows[valid[Len(valid)]]

\* Percentile without the fallback: the cell is copied as it is
Percentile_raw(cell, average) == cell

\* final_data['95%'] if pd.notna(final_data['95%']) else average
Percentile(cell, average) == IF notna(cell) THEN cell ELSE average

\* SuccessRate computing the share of failures instead
SuccessRate_failures(count, failures) ==
    IF count > 0 THEN Rat(failures * 100, count) ELSE R(0)

\* (count - failures) / count * 100 if count > 0 else 0
SuccessRate(count, failures) ==
    IF count > 0 THEN Rat((count - failures) * 100, count) ELSE R(0)

\* the same expression on a frame of doubles: the int64 counts are divided as
\* doubles, the quotient is multiplied by 100 = 2^6 + 2^5 + 2^2, and each of
\* the two results is rounded
SuccessRateDbl(count, failures) ==
    IF count > 0
    THEN LET q == BitsDiv(IntBits(count - failures, 0), count)
         IN  B64(Round53(BitsAdd(BitsAdd(Shifted(q, 6), Shifted(q, 5)),
                                  Shifted(q, 2))))
    ELSE B64({})

\* Throughput read from the last retained row only
Throughput_last(rows, valid) == rows[valid[Len(valid)]].RequestsPerSec

\* df_valid['Requests/s'].mean()
Throughput(rows, valid) ==
    SeriesMean([k \in 1..Len(valid) |-> rows[valid[k]].RequestsPerSec])

\* read_csv keeps a column as object dtype when one of its cells is not a
\* number: every non-empty cell of that column is then a str
TextColumn(rows, c) ==
    \E i \in 1..Len(rows) : c \in DOMAIN rows[i] /\ IsText(rows[i][c])

\* the value of row i in float column c as the frame holds it
Cell(rows, i, c) ==
    IF TextColumn(rows, c) /\ ~IsNaN(rows[i][c]) THEN Text ELSE rows[i][c]

\* df_valid['Requests/s'].mean() raises TypeError: a str takes part in the sum
ThroughputRaises(rows, valid) ==
    \E k \in 1..Len(valid) : IsText(Cell(rows, valid[k], "RequestsPerSec"))

\* the float cells of the frame are written as doubles
Binary64Frame(rows) ==
    \E i \in 1..Len(rows) : IsB64(rows[i].TotalAverageResponseTime)

RepStats(rows, valid, info) ==
    LET final_data == FinalData(rows, valid)
        last       == valid[Len(valid)]
        average    == Cell(rows, last, "TotalAverageResponseTime")
        rate(c, f) == IF Binary64Frame(rows) THEN SuccessRateDbl(c, f)
                      ELSE SuccessRate(c, f)
    IN  [avg_response_time    |-> average,
         median_response_time |-> Cell(rows, last, "TotalMedianResponseTime"),
         max_response_time    |-> Cell(rows, last, "TotalMaxResponseTime"),
         min_response_time    |-> Cell(rows, last, "TotalMinResponseTime"),
         p95_response_time    |-> Percentile(Cell(rows, last, "P95"), average),
         p99_response_time    |-> Percentile(Cell(rows, last, "P99"), average),
         success_rate         |-> rate(final_data.TotalRequestCount,
                                       final_data.TotalFailureCount),
         requests_per_sec     |-> Throughput(rows, valid),
         total_requests       |-> final_data.TotalRequestCount,
         total_failures       |-> final_data.TotalFailureCount,
         valid_duration       |-> Len(valid),
         warmup_discarded     |-> info.warmup_seconds]

\* df[c] / final_data[c] finds the column: every row of the frame has it
HasColumn(rows, c) == \A i \in 1..Len(rows) : c \in DOMAIN rows[i]

\* the columns read while rep_stats is built, in the order of their first use
\* on this frame: the conditional expression of lines 98-99 reads the failure
\* count only when the request count of final_data is positive; otherwise its
\* first read is at line 102, after 'Requests/s' (line 100)
StatsColumns(rows, valid) ==
    <<"TotalAverageResponseTime", "TotalMedianResponseTime", "TotalMaxResponseTime",
      "TotalMinResponseTime", "P95", "P99", "TotalRequestCount">> \o
    (IF /\ HasColumn(rows, "TotalRequestCount")
        /\ FinalData(rows, valid).TotalRequestCount > 0
     THEN <<"TotalFailureCount", "RequestsPerSec">>
     ELSE <<"RequestsPerSec", "TotalFailureCount">>)

\* reading column c while rep_stats is built raises: the frame lacks it
\* (KeyError), or it is 'Requests/s' and its mean raises (line 100)
Faulty(rows, valid, c) ==
    \/ ~HasColumn(rows, c)
    \/ c = "RequestsPerSec" /\ ThroughputRaises(rows, valid)

\* the exception raised while rep_stats is built, if any: the name of the
\* missing column, "mean" for the TypeError of line 100, "" when rep_stats is
\* built
FirstFault(rows, valid) ==
    LET cols == StatsColumns(rows, valid)
    IN  IF \A k \in 1..Len(cols) : ~Faulty(rows, valid, cols[k]) THEN ""
        ELSE LET c == cols[CHOOSE k \in 1..Len(cols) :
                          /\ Faulty(rows, valid, cols[k])
                          /\ \A j \in 1..(k - 1) : ~Faulty(rows, valid, cols[j])]
             IN  IF HasColumn(rows, c) THEN "mean" ELSE c

\* the print of the loaded line raises: format code 'f' applied to a str
FormatRaises(stats) == IsText(stats.avg_response_time)

\* an iteration ended by the except clause; assigned tells whether line 81
\* was reached (df_valid rebound), appended whether rep_stats had already
\* been added to all_stats when the exception was raised
Raised(cause, assigned, valid, stats, appended) ==
    [kind |-> "read_error", cause |-> cause, assigned |-> assigned,
     df_valid |-> valid, stats |-> stats, appended |-> appended]

\* an iteration that printed its own line
Ended(kind, assigned, valid, stats) ==
    [kind |-> kind, cause |-> "", assigned |-> assigned, df_valid |-> valid,
     stats |-> stats, appended |-> kind = "loaded"]

\* outcome of one pass through the try block: the line printed, the rows
\* kept when line 81 was reached, the rep_stats built and whether they were
\* added to all_stats
LoadRepetition(f, info) ==
    IF ~f.readable THEN Raised("read_csv", FALSE, <<>>, <<>>, FALSE)
    ELSE IF ~HasColumn(f.rows, "Name")
    THEN Raised("Name", FALSE, <<>>, <<>>, FALSE)
    ELSE LET agg == Aggregated(f.rows)
         IN  IF Len(agg) = 0 THEN Ended("no_aggregated", FALSE, <<>>, <<>>)
             ELSE IF ~HasColumn(f.rows, "Timestamp")
             THEN Raised("Timestamp", FALSE, <<>>, <<>>, FALSE)
             ELSE LET valid == Retained(f.rows, agg,
                                StartTimestamp(f.rows, agg) + info.warmup_seconds)
                  IN  IF Len(valid) = 0
                      THEN Ended("no_data_after_warmup", TRUE, valid, <<>>)
                      ELSE IF FirstFault(f.rows, valid) # ""
                      THEN Raised(FirstFault(f.rows, valid), TRUE, valid, <<>>,
                                  FALSE)
                      ELSE LET stats == RepStats(f.rows, valid, info)
                           IN  IF FormatRaises(stats)
                               THEN Raised("format", TRUE, valid, stats, TRUE)
                               ELSE Ended("loaded", TRUE, valid, stats)

\* the local df_valid after the iteration: rebound at line 81, otherwise
\* still the frame of an earlier iteration
NextDfValid(prev, out) == IF out.assigned THEN out.df_valid ELSE prev

\* all_stats after the iteration: rep_stats appended once line 107 was reached
NextAllStats(stats, out) ==
    IF out.appended THEN Append(stats, out.stats) ELSE stats

\* valid_repetitions counting every file of the scenario
NextValidRepetitions_every(n, out) == n + 1

\* valid_repetitions after the iteration
NextValidRepetitions(n, out) == IF out.appended THEN n + 1 ELSE n

\* FileLine printing the same warning for both skipped outcomes
FileLine_merged(s, out, rep) ==
    IF out.kind = "loaded"
    THEN <<"loaded", s, <<rep, out.stats.total_requests, out.stats.success_rate,
                          out.stats.avg_response_time>>>>
    ELSE IF out.kind = "read_error" THEN <<"read_error", s, <<out.cause>>>>
    ELSE <<"no_aggregated", s, <<>>>>

\* the line printed for the file
FileLine(s, out, rep) ==
    IF out.kind = "loaded"
    THEN <<"loaded", s, <<rep, out.stats.total_requests, out.stats.success_rate,
                          out.stats.avg_response_time>>>>
    ELSE IF out.kind = "read_error" THEN <<"read_error", s, <<out.cause>>>>
    ELSE <<out.kind, s, <<>>>>

\* the whole file loop of scenario s on the list fs that glob returned:
\* all_stats, valid_repetitions and the lines printed, file after file
RECURSIVE FileLoop(_, _)
FileLoop(fs, s) ==
    IF fs = <<>>
    THEN [all_stats |-> <<>>, valid_repetitions |-> 0, lines |-> <<>>]
    ELSE LET before == FileLoop(SubSeq(fs, 1, Len(fs) - 1), s)
             out    == LoadRepetition(fs[Len(fs)], scenario_mapping[s])
             rep    == NextValidRepetitions(before.valid_repetitions, out)
         IN  [all_stats         |-> NextAllStats(before.all_stats, out),
              valid_repetitions |-> rep,
              lines             |-> Append(before.lines, FileLine(s, out, rep))]

-----------------------------------------------------------------------------
(* summarizeScenario: the reduction over all_stats *)

Column(stats, field) == [k \in 1..Len(stats) |-> stats[k][field]]

\* HasValidRepetitions asking for more than one repetition
HasValidRepetitions_several(stats) == Len(stats) > 1

\* if all_stats:
HasValidRepetitions(stats) == stats # <<>>

\* np.mean / np.max / np.min raise on a list that holds a str
ReductionRaises(stats) ==
    \E k \in 1..Len(stats) :
        \E c \in {"avg_response_time", "median_response_time", "max_response_time",
                  "min_response_time", "p95_response_time", "p99_response_time"} :
            IsText(stats[k][c])

\* SummarizeScenario with the success rate weighted by request volume
SummarizeScenario_weighted(info, stats, valid) ==
    [name                 |-> info.name,
     users                |-> info.users,
     warmup_seconds       |-> info.warmup_seconds,
     total_duration       |-> info.total_duration,
     valid_repetitions    |-> valid,
     avg_response_time    |-> NpMean(Column(stats, "avg_response_time")),
     median_response_time |-> NpMean(Column(stats, "median_response_time")),
     max_response_time    |-> NpMax(Column(stats, "max_response_time")),
     min_response_time    |-> NpMin(Column(stats, "min_response_time")),
     p95_response_time    |-> NpMean(Column(stats, "p95_response_time")),
     p99_response_time    |-> NpMean(Column(stats, "p99_response_time")),
     success_rate         |-> Rat((IntSum(Column(stats, "total_requests"))
                                   - IntSum(Column(stats, "total_failures"))) * 100,
                                  IntSum(Column(stats, "total_requests"))),
     avg_requests_per_sec |-> NpMean(Column(stats, "requests_per_sec")),
     total_requests       |-> IntSum(Column(stats, "total_requests")),
     total_failures       |-> IntSum(Column(stats, "total_failures")),
     repetitions          |-> Len(stats),
     all_repetitions      |-> stats]

SummarizeScenario(info, stats, valid) ==
    [name                 |-> info.name,
     users                |-> info.users,
     warmup_seconds       |-> info.warmup_seconds,
     total_duration       |-> info.total_duration,
     valid_repetitions    |-> valid,
     avg_response_time    |-> NpMean(Column(stats, "avg_response_time")),
     median_response_time |-> NpMean(Column(stats, "median_response_time")),
     max_response_time    |-> NpMax(Column(stats, "max_response_time")),
     min_response_time    |-> NpMin(Column(stats, "min_response_time")),
     p95_response_time    |-> NpMean(Column(stats, "p95_response_time")),
     p99_response_time    |-> NpMean(Column(stats, "p99_response_time")),
     success_rate         |-> NpMean(Column(stats, "success_rate")),
     avg_requests_per_sec |-> NpMean(Column(stats, "requests_per_sec")),
     total_requests       |-> IntSum(Column(stats, "total_requests")),
     total_failures       |-> IntSum(Column(stats, "total_failures")),
     repetitions          |-> Len(stats),
     all_repetitions      |-> stats]

-----------------------------------------------------------------------------
(* The files the full run reads.  ShortRun is entirely warmup for a 60 s    *)
(* warmup and has steady-state rows for a 30 s one.                        *)

Agg(ts, count, failures, avg, med, max, min, p95, p99, rps) ==
    Row("Aggregated", ts,
        [TotalRequestCount |-> count, TotalFailureCount |-> failures,
         TotalAverageResponseTime |-> avg, TotalMedianResponseTime |-> med,
         TotalMaxResponseTime |-> max, TotalMinResponseTime |-> min,
         P95 |-> p95, P99 |-> p99, RequestsPerSec |-> rps])

ShortRun ==
    Csv(<<Agg(0, 0, 0, R(0), R(0), R(0), R(0), NaN, NaN, R(0)),
          Agg(30, 4, 1, R(140), R(120), R(250), R(10), R(200), NaN, R(5)),
          Agg(45, 6, 1, R(140), R(120), R(250), R(10), R(200), NaN, R(4))>>)

LongRun ==
    Csv(<<Row("/api/customer/owners", 0, EndpointMetrics),
          Agg(0, 0, 0, R(0), R(0), R(0), R(0), NaN, NaN, R(0)),
          Agg(60, 4, 4, R(90), R(80), R(200), R(20), R(150), R(190), R(2)),
          Agg(90, 8, 4, R(100), R(90), R(300), R(20), NaN, R(280), R(3))>>)

\* LongRun without its 99% column: the KeyError is raised while rep_stats is
\* being built
MissingP99 ==
    Csv([k \in 1..Len(LongRun.rows) |->
            [c \in DOMAIN LongRun.rows[k] \ {"P99"} |-> LongRun.rows[k][c]]])

\* a run whose average column holds text
TextAverage ==
    Csv(<<Agg(0, 0, 0, Text, R(0), R(0), R(0), NaN, NaN, R(0)),
          Agg(60, 4, 2, Text, R(80), R(200), R(20), R(150), R(190), R(2))>>)

MalformedFiles == {MissingP99, TextAverage}

RunFiles == {ShortRun, LongRun, MissingP99, TextAverage}

-----------------------------------------------------------------------------
(* The program *)

Init ==
    /\ pc = "main"
    /\ si = 1
    /\ nfiles = 0
    /\ fi = 0
    /\ file = NoFile
    /\ files = <<>>
    /\ df_valid = <<>>
    /\ all_stats = <<>>
    /\ valid_repetitions = 0
    /\ scenario_stats = <<>>
    /\ log = <<>>
    /\ outputs = {}
    /\ error = "none"
    /\ exit_status = -1

\* main() calls load_results_data_with_warmup_exclusion()
CallLoad ==
    /\ pc = "main"
    /\ pc' = "scenario"
    /\ log' = Append(log, <<"banner", "", <<>>>>)
    /\ UNCHANGED <<si, nfiles, fi, file, files, df_valid, all_stats, valid_repetitions,
                   scenario_stats, outputs, error, exit_status>>

\* top of the scenario loop: glob the files, print the two header lines,
\* reset the accumulators
StartScenario ==
    /\ pc = "scenario"
    /\ si <= Len(ScenarioOrder)
    /\ \E n \in 0..MaxFiles :
          /\ nfiles' = n
          /\ log' = log \o <<<<"scenario", ScenarioOrder[si], <<n>>>>,
                             <<"warmup", ScenarioOrder[si],
                               <<scenario_mapping[ScenarioOrder[si]].warmup_seconds>>>>>>
    /\ fi' = 0
    /\ files' = <<>>
    /\ all_stats' = <<>>
    /\ valid_repetitions' = 0
    /\ pc' = "file"
    /\ UNCHANGED <<si, file, df_valid, scenario_stats, outputs, error, exit_status>>

\* one iteration of the file loop, on a file whose content is drawn from Files
ProcessFile(Files) ==
    /\ pc = "file"
    /\ fi < nfiles
    /\ \E f \in Files :
          LET s   == ScenarioOrder[si]
              out == LoadRepetition(f, scenario_mapping[s])
          IN  /\ file' = f
              /\ files' = Append(files, f)
              /\ df_valid' = NextDfValid(df_valid, out)
              /\ all_stats' = NextAllStats(all_stats, out)
              /\ valid_repetitions' = NextValidRepetitions(valid_repetitions, out)
              /\ log' = Append(log, FileLine(s, out,
                                    NextValidRepetitions(valid_repetitions, out)))
    /\ fi' = fi + 1
    /\ UNCHANGED <<pc, si, nfiles, scenario_stats, outputs, error, exit_status>>

\* after the file loop: store the summary or report the scenario as empty;
\* the reductions run outside the try block, so an exception ends the process
FinishScenario ==
    /\ pc = "file"
    /\ fi = nfiles
    /\ LET s == ScenarioOrder[si]
       IN  IF HasValidRepetitions(all_stats) /\ ReductionRaises(all_stats)
           THEN /\ error' = "TypeError"
                /\ exit_status' = 1
                /\ pc' = "exit"
                /\ UNCHANGED <<si, scenario_stats, log>>
           ELSE /\ IF HasValidRepetitions(all_stats)
                   THEN /\ scenario_stats' =
                              (s :> SummarizeScenario(scenario_mapping[s], all_stats,
                                                      valid_repetitions))
                              @@ scenario_stats
                        /\ log' = Append(log, <<"summary", s, <<valid_repetitions>>>>)
                   ELSE /\ scenario_stats' = scenario_stats
                        /\ log' = Append(log, <<"no_valid_repetition", s, <<>>>>)
                /\ si' = si + 1
                /\ pc' = "scenario"
                /\ UNCHANGED <<error, exit_status>>
    /\ UNCHANGED <<nfiles, fi, file, files, df_valid, all_stats, valid_repetitions,
                   outputs>>

\* return scenario_stats, then main()'s `if not scenario_stats: ... return`
ReturnStats ==
    /\ pc = "scenario"
    /\ si > Len(ScenarioOrder)
    /\ IF DOMAIN scenario_stats = {}
       THEN /\ log' = Append(log, <<"no_results", "", <<>>>>)
            /\ pc' = "exit"
            /\ exit_status' = 0
       ELSE /\ log' = Append(log, <<"data_loaded", "",
                                    <<Cardinality(DOMAIN scenario_stats)>>>>)
            /\ pc' = "tables"
            /\ exit_status' = exit_status
    /\ UNCHANGED <<si, nfiles, fi, file, files, df_valid, all_stats, valid_repetitions,
                   scenario_stats, outputs, error>>

\* df_consolidated[df_consolidated['Cenário'].str.contains('<users> usuários')]:
\* the rows of the consolidated table whose scenario name contains the label;
\* each configured name contains exactly the label of its own user count
RowsContaining(stats, users) == {s \in DOMAIN stats : stats[s].users = users}

\* create_detailed_tables: .iloc[0] on each of the three selections, then the
\* three CSV files
CreateDetailedTables ==
    /\ pc = "tables"
    /\ IF \A u \in {50, 100, 200} : RowsContaining(scenario_stats, u) # {}
       THEN /\ outputs' = outputs \cup {"tables"}
            /\ pc' = "charts"
            /\ UNCHANGED <<error, exit_status>>
       ELSE /\ error' = "IndexError"
            /\ exit_status' = 1
            /\ pc' = "exit"
            /\ UNCHANGED outputs
    /\ UNCHANGED <<si, nfiles, fi, file, files, df_valid, all_stats, valid_repetitions,
                   scenario_stats, log>>

\* create_individual_charts: scenario_stats['CenarioA'], ['CenarioB'],
\* ['CenarioC'] are read before the first chart is drawn
CreateIndividualCharts ==
    /\ pc = "charts"
    /\ IF ScenarioIds \subseteq DOMAIN scenario_stats
       THEN /\ outputs' = outputs \cup {"charts"}
            /\ pc' = "summary"
            /\ UNCHANGED <<error, exit_status>>
       ELSE /\ error' = "KeyError"
            /\ exit_status' = 1
            /\ pc' = "exit"
            /\ UNCHANGED outputs
    /\ UNCHANGED <<si, nfiles, fi, file, files, df_valid, all_stats, valid_repetitions,
                   scenario_stats, log>>

\* generate_executive_summary: the same three lookups, then the text file
GenerateExecutiveSummary ==
    /\ pc = "summary"
    /\ IF ScenarioIds \subseteq DOMAIN scenario_stats
       THEN /\ outputs' = outputs \cup {"report"}
            /\ pc' = "print"
            /\ UNCHANGED <<error, exit_status>>
       ELSE /\ error' = "KeyError"
            /\ exit_status' = 1
            /\ pc' = "exit"
            /\ UNCHANGED outputs
    /\ UNCHANGED <<si, nfiles, fi, file, files, df_valid, all_stats, valid_repetitions,
                   scenario_stats, log>>

\* the rest of main(): the printed recap, then normal termination
PrintRecap ==
    /\ pc = "print"
    /\ log' = Append(log, <<"complete", "", <<>>>>)
    /\ pc' = "exit"
    /\ exit_status' = 0
    /\ UNCHANGED <<si, nfiles, fi, file, files, df_valid, all_stats, valid_repetitions,
                   scenario_stats, outputs, error>>

Next ==
    \/ CallLoad
    \/ StartScenario
    \/ ProcessFile(RunFiles)
    \/ FinishScenario
    \/ ReturnStats
    \/ CreateDetailedTables
    \/ CreateIndividualCharts
    \/ GenerateExecutiveSummary
    \/ PrintRecap

Spec == Init /\ [][Next]_vars

-----------------------------------------------------------------------------
(* loadRepetition on its own: the loader stands at the single file of a    *)
(* scenario, every earlier scenario having had no file; the file is any    *)
(* CSV of at most MaxRows rows, and the scenario is then summarised.       *)

RECURSIVE EmptyScenarioLines(_)
EmptyScenarioLines(k) ==
    IF k = 0 THEN <<>>
    ELSE EmptyScenarioLines(k - 1) \o
         <<<<"scenario", ScenarioOrder[k], <<0>>>>,
           <<"warmup", ScenarioOrder[k],
             <<scenario_mapping[ScenarioOrder[k]].warmup_seconds>>>>,
           <<"no_valid_repetition", ScenarioOrder[k], <<>>>>>>

InitRep ==
    /\ pc = "file"
    /\ si \in 1..Len(ScenarioOrder)
    /\ nfiles = 1
    /\ fi = 0
    /\ file = NoFile
    /\ files = <<>>
    /\ df_valid = <<>>
    /\ all_stats = <<>>
    /\ valid_repetitions = 0
    /\ scenario_stats = <<>>
    /\ log = <<<<"banner", "", <<>>>>>> \o EmptyScenarioLines(si - 1) \o
             <<<<"scenario", ScenarioOrder[si], <<1>>>>,
               <<"warmup", ScenarioOrder[si],
                 <<scenario_mapping[ScenarioOrder[si]].warmup_seconds>>>>>>
    /\ outputs = {}
    /\ error = "none"
    /\ exit_status = -1

NextRep ==
    \/ ProcessFile(RepFiles)
    \/ ProcessFile(MalformedFiles)
    \/ FinishScenario

SpecRep == InitRep /\ [][NextRep]_vars

-----------------------------------------------------------------------------
(* summarizeScenario on binary64 values: the loader stands at the first of *)
(* at most MaxReps files of a scenario, every earlier scenario having had  *)
(* no file; every file is a run whose float cells are the doubles read_csv *)
(* parses from one-decimal text, and the scenario is then summarised.      *)

\* a run of three snapshots, the last two after every configured warmup
FloatRun(count, failures, avg, med, max, min, p95, rps) ==
    Csv(<<Agg(0, 0, 0, Dbl(0, 1), Dbl(0, 1), Dbl(0, 1), Dbl(0, 1), NaN, NaN,
              Dbl(0, 1)),
          Agg(60, count, 0, Dbl(avg + 9, 10), Dbl(med, 10), Dbl(max, 10),
              Dbl(min, 10), Dbl(p95, 10), NaN, Dbl(rps + 2, 10)),
          Agg(90, 2 * count, failures, Dbl(avg, 10), Dbl(med, 10), Dbl(max, 10),
              Dbl(min, 10), Dbl(p95, 10), NaN, Dbl(rps, 10))>>)

FloatFiles ==
    {FloatRun(40, 1, 451, 402, 3003, 24, 1204, 21),
     FloatRun(30, 0, 452, 407, 2507, 21, 987, 22),
     FloatRun(50, 3, 453, 398, 2809, 22, 1013, 24)}

InitSum ==
    /\ pc = "file"
    /\ si \in 1..Len(ScenarioOrder)
    /\ nfiles \in 1..MaxReps
    /\ fi = 0
    /\ file = NoFile
    /\ files = <<>>
    /\ df_valid = <<>>
    /\ all_stats = <<>>
    /\ valid_repetitions = 0
    /\ scenario_stats = <<>>
    /\ log = <<<<"banner", "", <<>>>>>> \o EmptyScenarioLines(si - 1) \o
             <<<<"scenario", ScenarioOrder[si], <<nfiles>>>>,
               <<"warmup", ScenarioOrder[si],
                 <<scenario_mapping[ScenarioOrder[si]].warmup_seconds>>>>>>
    /\ outputs = {}
    /\ error = "none"
    /\ exit_status = -1

NextSum ==
    \/ ProcessFile(FloatFiles)
    \/ FinishScenario

SpecSum == InitSum /\ [][NextSum]_vars

-----------------------------------------------------------------------------
(* Properties of loadRepetition *)

LastLine == log[Len(log)]

\* the file loop has just completed an iteration on `file`
JustProcessed == pc = "file" /\ fi > 0

JustLoaded == JustProcessed /\ LastLine[1] = "loaded"

\* the rep_stats appended by the iteration just completed
LatestStats == all_stats[Len(all_stats)]

AggregatedIdx == {i \in 1..Len(file.rows) : file.rows[i].Name = "Aggregated"}

SeriesStart ==
    CHOOSE t \in {file.rows[i].Timestamp : i \in AggregatedIdx} :
        \A j \in AggregatedIdx : t <= file.rows[j].Timestamp

Cutoff == SeriesStart + scenario_mapping[ScenarioOrder[si]].warmup_seconds

RatEq(x, y) == x[1] * y[2] = y[1] * x[2] /\ (IsNaN(x) <=> IsNaN(y))

\* C1: an Aggregated snapshot is retained if and only if its timestamp is at
\* least start + warmup, start being the earliest Aggregated timestamp; nothing
\* else is retained.
WarmupCutoffInclusive ==
    (JustProcessed /\ LastLine[1] \in {"loaded", "no_data_after_warmup"}) =>
        /\ Range(df_valid) \subseteq AggregatedIdx
        /\ \A i \in AggregatedIdx :
              i \in Range(df_valid) <=> file.rows[i].Timestamp >= Cutoff

\* a snapshot exactly on the cutoff was retained and an earlier one discarded
WarmupCutoffWitness ==
    /\ JustLoaded
    /\ \E i \in Range(df_valid) : file.rows[i].Timestamp = Cutoff
    /\ \E j \in AggregatedIdx \ Range(df_valid) : file.rows[j].Timestamp < Cutoff

\* the retained snapshot that a stable sort by timestamp would put last
LatestRetained ==
    CHOOSE i \in Range(df_valid) :
        \A j \in Range(df_valid) :
            \/ file.rows[j].Timestamp < file.rows[i].Timestamp
            \/ file.rows[j].Timestamp = file.rows[i].Timestamp /\ j <= i

PointEstimateOf(r, st) ==
    /\ st.avg_response_time = r.TotalAverageResponseTime
    /\ st.median_response_time = r.TotalMedianResponseTime
    /\ st.max_response_time = r.TotalMaxResponseTime
    /\ st.min_response_time = r.TotalMinResponseTime
    /\ st.p95_response_time =
          (IF IsNaN(r.P95) THEN r.TotalAverageResponseTime ELSE r.P95)
    /\ st.p99_response_time =
          (IF IsNaN(r.P99) THEN r.TotalAverageResponseTime ELSE r.P99)
    /\ st.total_requests = r.TotalRequestCount
    /\ st.total_failures = r.TotalFailureCount

\* C2: the point-estimate fields are those of the retained snapshot with the
\* greatest timestamp (the later one in input order on ties), whatever the
\* order of the rows in the file.
PointEstimateFromLatestSnapshot ==
    JustLoaded => PointEstimateOf(file.rows[LatestRetained], LatestStats)

\* C3 as stated: success_rate is in [0, 100] and is 0 exactly when the request
\* count is 0.
SuccessRateZeroIffNoRequests ==
    JustLoaded =>
        /\ RatLeq(R(0), LatestStats.success_rate)
        /\ RatLeq(LatestStats.success_rate, R(100))
        /\ (LatestStats.success_rate = R(0) <=> LatestStats.total_requests = 0)

\* C3 amended: with 0 <= failures <= requests, success_rate is in [0, 100]; it
\* is 0 when the request count is 0, and it is 0 exactly when the request
\* count is 0 or every request failed.
SuccessRateRange ==
    (JustLoaded /\ 0 <= LatestStats.total_failures
                /\ LatestStats.total_failures <= LatestStats.total_requests) =>
        /\ RatLeq(R(0), LatestStats.success_rate)
        /\ RatLeq(LatestStats.success_rate, R(100))
        /\ (LatestStats.total_requests = 0 => LatestStats.success_rate = R(0))
        /\ (LatestStats.success_rate = R(0) <=>
               \/ LatestStats.total_requests = 0
               \/ LatestStats.total_failures = LatestStats.total_requests)

\* a repetition whose requests all failed was loaded
SuccessRateWitness ==
    /\ JustLoaded
    /\ LatestStats.total_requests > 0
    /\ LatestStats.total_failures = LatestStats.total_requests
    /\ LatestStats.success_rate = R(0)

\* the Aggregated rows at or after the cutoff, by the claim's own reading
SteadyIdx == {i \in AggregatedIdx : file.rows[i].Timestamp >= Cutoff}

RECURSIVE RpsSum(_)
RpsSum(S) ==
    IF S = {} THEN R(0)
    ELSE LET i == CHOOSE x \in S : TRUE
         IN  RatAdd(file.rows[i].RequestsPerSec, RpsSum(S \ {i}))

\* C9: throughput is the arithmetic mean of Requests/s over the retained
\* Aggregated snapshots: throughput * (number retained) = sum of their
\* Requests/s, warmup rows and per-endpoint rows left out.
ThroughputIsRetainedMean ==
    JustLoaded =>
        RatEq(<<LatestStats.requests_per_sec[1] * Cardinality(SteadyIdx),
                LatestStats.requests_per_sec[2]>>,
              RpsSum(SteadyIdx))

\* several snapshots were retained after a warmup row was discarded, and the
\* mean differs from the last snapshot's value
ThroughputWitness ==
    /\ JustLoaded
    /\ Len(df_valid) >= 2
    /\ LatestStats.requests_per_sec # FinalData(file.rows, df_valid).RequestsPerSec
    /\ AggregatedIdx \ Range(df_valid) # {}

\* C10: p95/p99 of a Repetition Summary is the point-estimate snapshot's cell
\* when present and its average response time when missing; no Repetition
\* Summary and no Scenario Summary carries a missing p95 or p99.
PercentileNeverMissing ==
    /\ JustLoaded =>
          LET r == FinalData(file.rows, df_valid)
          IN  /\ LatestStats.p95_response_time =
                    (IF IsNaN(r.P95) THEN r.TotalAverageResponseTime ELSE r.P95)
              /\ LatestStats.p99_response_time =
                    (IF IsNaN(r.P99) THEN r.TotalAverageResponseTime ELSE r.P99)
    /\ \A k \in 1..Len(all_stats) :
          /\ ~IsNaN(all_stats[k].p95_response_time)
          /\ ~IsNaN(all_stats[k].p99_response_time)
    /\ \A s \in DOMAIN scenario_stats :
          /\ ~IsNaN(scenario_stats[s].p95_response_time)
          /\ ~IsNaN(scenario_stats[s].p99_response_time)

\* a scenario was summarised from a repetition whose final snapshot lacks
\* both percentiles
PercentileWitness ==
    /\ DOMAIN scenario_stats # {}
    /\ Len(df_valid) > 0
    /\ IsNaN(FinalData(file.rows, df_valid).P95)
    /\ IsNaN(FinalData(file.rows, df_valid).P99)

-----------------------------------------------------------------------------
(* Properties of the run *)

\* C4: when the returned mapping is empty the run ends with a non-zero status
\* and nothing is written.
TotalFailureStatus ==
    (pc = "exit" /\ DOMAIN scenario_stats = {}) =>
        (exit_status # 0 /\ outputs = {})

\* C5: when some scenario has a summary and some configured scenario has none,
\* the run ends without an error, the downstream steps having skipped the
\* missing scenario.
PartialResultsComplete ==
    (pc = "exit" /\ DOMAIN scenario_stats # {}
                 /\ DOMAIN scenario_stats # ScenarioIds) =>
        (error = "none" /\ exit_status = 0)

LinesOf(s, kind) == {k \in 1..Len(log) : log[k][1] = kind /\ log[k][2] = s}

FailureKinds == {"read_error", "no_aggregated", "no_data_after_warmup"}

StatsColumnNames ==
    {"TotalAverageResponseTime", "TotalMedianResponseTime", "TotalMaxResponseTime",
     "TotalMinResponseTime", "P95", "P99", "TotalRequestCount",
     "TotalFailureCount", "RequestsPerSec"}

\* a readable file that does not follow the history layout: a column is
\* missing, or a response time or throughput cell holds text
Malformed(f) ==
    /\ f.readable
    /\ \/ \E c \in {"Name", "Timestamp"} \cup StatsColumnNames :
              ~HasColumn(f.rows, c)
       \/ \E i \in 1..Len(f.rows) :
              \E c \in {"TotalAverageResponseTime", "TotalMedianResponseTime",
                        "TotalMaxResponseTime", "TotalMinResponseTime",
                        "P95", "P99", "RequestsPerSec"} :
                  c \in DOMAIN f.rows[i] /\ IsText(f.rows[i][c])

ExpectedFailure(f, warmup) ==
    IF ~f.readable \/ Malformed(f) THEN "read_error"
    ELSE LET A == {i \in 1..Len(f.rows) : f.rows[i].Name = "Aggregated"}
         IN  IF A = {} THEN "no_aggregated"
             ELSE IF \A i, j \in A :
                         f.rows[i].Timestamp < f.rows[j].Timestamp + warmup
                  THEN "no_data_after_warmup"
                  ELSE "none"

\* C7: a file that is unreadable or malformed, has no Aggregated row, or has
\* no snapshot left after warmup exclusion is reported as such, adds no
\* Repetition Summary,
\* leaves all_stats, valid_repetitions and the mapping as they were, and leaves
\* the loader inside the file loop of the same scenario, one file further.
FileFailureSkipsOnlyThatFile ==
    [][ (pc = "file" /\ fi' = fi + 1
         /\ ExpectedFailure(file',
               scenario_mapping[ScenarioOrder[si]].warmup_seconds) # "none")
        => /\ log'[Len(log')][1] =
                 ExpectedFailure(file',
                     scenario_mapping[ScenarioOrder[si]].warmup_seconds)
           /\ Len(log') = Len(log) + 1
           /\ all_stats' = all_stats
           /\ valid_repetitions' = valid_repetitions
           /\ scenario_stats' = scenario_stats
           /\ pc' = "file" /\ si' = si /\ nfiles' = nfiles
           /\ error' = "none" /\ exit_status' = -1 ]_vars

RECURSIVE FieldSum(_, _, _)
FieldSum(reps, field, n) ==
    IF n = 0 THEN R(0) ELSE RatAdd(FieldSum(reps, field, n - 1), reps[n][field])

RECURSIVE CountSum(_, _, _)
CountSum(reps, field, n) ==
    IF n = 0 THEN 0 ELSE CountSum(reps, field, n - 1) + reps[n][field]

\* value * (number of repetitions) = sum of the repetitions' values
IsMeanOf(value, reps, field) ==
    RatEq(<<value[1] * Len(reps), value[2]>>, FieldSum(reps, field, Len(reps)))

\* C8: whenever a Scenario Summary is stored, it reduces the collected
\* Repetition Summaries field by field with the field's own operator: mean for
\* avg, median, p95, p99, throughput and success rate (unweighted), maximum of
\* the maxima, minimum of the minima, sum of requests and of failures; the
\* summaries stored earlier are left as they are.
ReductionPerField ==
    [][ /\ \A s \in DOMAIN scenario_stats :
              s \in DOMAIN scenario_stats' /\ scenario_stats'[s] = scenario_stats[s]
        /\ \A s \in DOMAIN scenario_stats' \ DOMAIN scenario_stats :
              LET sum  == scenario_stats'[s]
                  reps == all_stats
                  K    == 1..Len(reps)
              IN  /\ K # {}
                  /\ sum.all_repetitions = reps
                  /\ IsMeanOf(sum.avg_response_time, reps, "avg_response_time")
                  /\ IsMeanOf(sum.median_response_time, reps, "median_response_time")
                  /\ IsMeanOf(sum.p95_response_time, reps, "p95_response_time")
                  /\ IsMeanOf(sum.p99_response_time, reps, "p99_response_time")
                  /\ IsMeanOf(sum.avg_requests_per_sec, reps, "requests_per_sec")
                  /\ IsMeanOf(sum.success_rate, reps, "success_rate")
                  /\ \E k \in K : sum.max_response_time = reps[k].max_response_time
                  /\ \A k \in K :
                        RatLeq(reps[k].max_response_time, sum.max_response_time)
                  /\ \E k \in K : sum.min_response_time = reps[k].min_response_time
                  /\ \A k \in K :
                        RatLeq(sum.min_response_time, reps[k].min_response_time)
                  /\ sum.total_requests = CountSum(reps, "total_requests", Len(reps))
                  /\ sum.total_failures = CountSum(reps, "total_failures", Len(reps))
      ]_vars

\* a summary of two repetitions that differ in average, maximum, minimum,
\* request count and success rate, where weighting the success rate by
\* request volume would give another value
ReductionWitness ==
    \E s \in DOMAIN scenario_stats :
        LET sum  == scenario_stats[s]
            reps == sum.all_repetitions
        IN  /\ Len(reps) = 2
            /\ reps[1].avg_response_time # reps[2].avg_response_time
            /\ reps[1].max_response_time # reps[2].max_response_time
            /\ reps[1].min_response_time # reps[2].min_response_time
            /\ reps[1].total_requests # reps[2].total_requests
            /\ sum.success_rate #
                  Rat((sum.total_requests - sum.total_failures) * 100,
                      sum.total_requests)

-----------------------------------------------------------------------------
(* Diagnostics of the file loop *)

OutcomeClasses == {"loaded"} \cup FailureKinds

\* what happened to the file, read from its content
ExpectedOutcome(f, warmup) ==
    IF ExpectedFailure(f, warmup) = "none" THEN "loaded"
    ELSE ExpectedFailure(f, warmup)

\* C11: every file processed adds exactly one line to the log, after the lines
\* already printed; the line is of exactly one of the four outcome classes,
\* the one that matches the file's content (loaded, no Aggregated row, nothing
\* left after the warmup, error), and an error line carries its cause.
OneDiagnosticPerFile ==
    [][ (pc = "file" /\ fi' = fi + 1) =>
           LET line == log'[Len(log')]
           IN  /\ Len(log') = Len(log) + 1
               /\ SubSeq(log', 1, Len(log)) = log
               /\ line[1] \in OutcomeClasses
               /\ line[1] = ExpectedOutcome(file',
                                scenario_mapping[ScenarioOrder[si]].warmup_seconds)
               /\ line[2] = ScenarioOrder[si]
               /\ line[1] = "read_error" => (Len(line[3]) = 1 /\ line[3][1] # "")
      ]_vars

\* a file with Aggregated rows, all of them inside the warmup, has just been
\* reported as having no data after the warmup, in one line
OneDiagnosticWitness ==
    /\ JustProcessed
    /\ LastLine[1] = "no_data_after_warmup"
    /\ Cardinality(AggregatedIdx) >= 2
    /\ Len(file.rows) > Cardinality(AggregatedIdx)
    /\ Cardinality({k \in 1..Len(log) : log[k][1] \in OutcomeClasses}) = fi

\* the permutations of 1..n
Perms(n) == {p \in [1..n -> 1..n] : \A i, j \in 1..n : p[i] = p[j] => i = j}

Permuted(seq, p) == [k \in 1..Len(seq) |-> seq[p[k]]]

\* the lines printed for the files of the current scenario
FileLines == SubSeq(log, Len(log) - fi + 1, Len(log))

\* C12: when the file loop of a scenario has ended, the per-file lines it
\* printed, repetition numbers included, are the ones a run would print that
\* discovered the same files in any other order.
DiagnosticsOrderFixed ==
    (pc = "file" /\ fi = nfiles) =>
        /\ FileLines = FileLoop(files, ScenarioOrder[si]).lines
        /\ \A p \in Perms(Len(files)) :
              FileLoop(Permuted(files, p), ScenarioOrder[si]).lines = FileLines

-----------------------------------------------------------------------------
(* Algebra of the reduction *)

ReducedFields ==
    {"avg_response_time", "median_response_time", "max_response_time",
     "min_response_time", "p95_response_time", "p99_response_time",
     "success_rate", "avg_requests_per_sec", "total_requests", "total_failures"}

MeanFields ==
    {"avg_response_time", "median_response_time", "p95_response_time",
     "p99_response_time", "success_rate", "avg_requests_per_sec"}

\* x and y are equal, or doubles a relative 2^-48 apart at most
Close(x, y) ==
    \/ x = y
    \/ /\ IsB64(x) /\ IsB64(y)
       /\ BitsLeq(x[1], BitsAdd(y[1], Shifted(y[1], -48)))
       /\ BitsLeq(y[1], BitsAdd(x[1], Shifted(x[1], -48)))

\* the summary of the Repetition Summaries reps taken in the order p
Reordered(s, reps, p, valid) ==
    SummarizeScenario(scenario_mapping[s], Permuted(reps, p), valid)

SingleRepetitionSummary ==
    \A s \in DOMAIN scenario_stats :
        LET sum == scenario_stats[s]
            one == sum.all_repetitions[1]
        IN  Len(sum.all_repetitions) = 1 =>
               /\ sum.avg_response_time = one.avg_response_time
               /\ sum.median_response_time = one.median_response_time
               /\ sum.p95_response_time = one.p95_response_time
               /\ sum.p99_response_time = one.p99_response_time
               /\ sum.avg_requests_per_sec = one.requests_per_sec
               /\ sum.success_rate = one.success_rate
               /\ sum.max_response_time = one.max_response_time
               /\ sum.min_response_time = one.min_response_time
               /\ sum.total_requests = one.total_requests
               /\ sum.total_failures = one.total_failures

\* a scenario was summarised from a single repetition with failures, a
\* fractional throughput and distinct average, maximum and minimum
SingleRepetitionWitness ==
    \E s \in DOMAIN scenario_stats :
        LET sum == scenario_stats[s]
        IN  /\ sum.repetitions = 1
            /\ sum.total_failures > 0
            /\ sum.total_requests > sum.total_failures
            /\ sum.avg_requests_per_sec[2] > 1
            /\ sum.max_response_time # sum.avg_response_time
            /\ sum.min_response_time # sum.avg_response_time

-----------------------------------------------------------------------------
(* Repetition counts *)

\* the file has steady-state rows and its first statistic can be read, but a
\* column needed for a later one is missing: the exception is raised while
\* rep_stats is being built
RaisedWhileBuilding(f, warmup) ==
    /\ f.readable
    /\ HasColumn(f.rows, "Name") /\ HasColumn(f.rows, "Timestamp")
    /\ \E i, j \in {k \in 1..Len(f.rows) : f.rows[k].Name = "Aggregated"} :
           f.rows[i].Timestamp >= f.rows[j].Timestamp + warmup
    /\ HasColumn(f.rows, "TotalAverageResponseTime")
    /\ \E c \in StatsColumnNames : ~HasColumn(f.rows, c)

\* C15: when the loader returns, every scenario of the mapping has
\* valid_repetitions = repetitions = the length of all_repetitions >= 1, and
\* that number is the number of its files reported as loaded; a file whose
\* processing raises an exception while its statistics are being built leaves
\* all_stats and valid_repetitions as they were.
RepetitionCountsAgree ==
    [][ /\ (pc = "scenario" /\ pc' \notin {"scenario", "file"}) =>
              \A s \in DOMAIN scenario_stats' :
                 LET sum == scenario_stats'[s]
                 IN  /\ sum.valid_repetitions = sum.repetitions
                     /\ sum.repetitions = Len(sum.all_repetitions)
                     /\ sum.repetitions >= 1
                     /\ sum.repetitions = Cardinality(LinesOf(s, "loaded"))
        /\ (pc = "file" /\ fi' = fi + 1
             /\ RaisedWhileBuilding(file',
                    scenario_mapping[ScenarioOrder[si]].warmup_seconds)) =>
              /\ all_stats' = all_stats
              /\ valid_repetitions' = valid_repetitions
      ]_vars

\* the loader has returned a mapping with a scenario of two files, one loaded
\* and one that raised for its missing 99% column
RepetitionCountsWitness ==
    /\ pc \notin {"main", "scenario", "file"}
    /\ si > Len(ScenarioOrder)
    /\ \E s \in DOMAIN scenario_stats :
          /\ scenario_stats[s].repetitions = 1
          /\ \E k \in LinesOf(s, "scenario") : log[k][3] = <<2>>
          /\ \E k \in LinesOf(s, "read_error") : log[k][3] = <<"P99">>

====
